---- MODULE Spec2Model ----
(***************************************************************************)
(* Model of core/lib/lantern/trace-engine-computation-data.js:             *)
(* createNetworkRequests and the functions it calls (createLanternRequest, *)
(* the redirect unwrapping loop, linkInitiators, chooseInitiatorRequest    *)
(* and the final sort).                                                    *)
(*                                                                         *)
(* Objects are kept in `heap` (a sequence; an object's identity is its     *)
(* index) and references between objects (redirectSource,                  *)
(* redirectDestination, redirects, initiatorRequest) are heap indices,     *)
(* Null standing for JavaScript's undefined/null reference.                *)
(***************************************************************************)
EXTENDS Integers, Sequences, FiniteSets, TLC

VARIABLES
  byTime,           \* traceEngineResult.data.NetworkRequests.byTime (the input)
  heap,             \* every Lantern.NetworkRequest object allocated so far
  lanternRequests,  \* the working list: sequence of heap indices
  idx,              \* position of the running for-loop (1-based)
  pc,               \* "build" | "expand" | "link" | "sort" | "done" | "error"
  result            \* the returned list, once returned

vars == <<byTime, heap, lanternRequests, idx, pc, result>>

-----------------------------------------------------------------------------
(* Bounds of the model *)

MaxRequests == 2      \* raw network-request events in byTime
MaxRedirects == 2     \* entries of one raw event's redirects list
MaxCandidates == 2    \* same-URL candidates in the initiator-resolution runs

(* Values *)

Null == 0                    \* no object (undefined / null reference)
Undefined == "undefined"     \* an absent string-valued field

UrlA == "https://a.test/"
UrlB == "https://b.test/"
BadUrl == "not a url"
URLs == {UrlA, UrlB}

DataBase64 == "data:text/plain;base64,SGVsbG8="
DataMalformed == "data:text/plain;base64,@@@"
DataUrls == {DataBase64, DataMalformed}

RedirectSuffix == ":redirect"
RequestIds == <<"7.1", "7.2", "7.3", "7.4", "7.5">>

Other == "Other"             \* RESOURCE_TYPES.Other
Document == "Document"       \* RESOURCE_TYPES.Document
Script == "Script"
XHR == "XHR"
Fetch == "Fetch"

RedirectStatusCode == 302
RedirectTransferSize == 400

-----------------------------------------------------------------------------
(* Times in ms. The trace has integer microseconds and the code divides  *)
(* them by 1000, which leaves a fraction: a time is the whole ms and the  *)
(* thousandths of a ms.                                                   *)
DividedBy1000(us) == [whole |-> us \div 1000, thousandths |-> us % 1000]

(* a <= b, and the sign of a - b in the sort's comparator *)
AtMost(a, b) ==
  \/ a.whole < b.whole
  \/ a.whole = b.whole /\ a.thousandths <= b.thousandths

(* new URL(url): succeeds exactly on absolute URLs; throws otherwise *)
UrlParses(url) == url \in URLs \cup DataUrls

(* url.protocol *)
Protocol(url) == IF url \in DataUrls THEN "data:" ELSE "https:"

(* url.pathname, character by character *)
Pathname(url) ==
  CASE url = DataBase64 ->
         <<"t", "e", "x", "t", "/", "p", "l", "a", "i", "n", ";",
           "b", "a", "s", "e", "6", "4", ",",
           "S", "G", "V", "s", "b", "G", "8", "=">>
    [] url = DataMalformed ->
         <<"t", "e", "x", "t", "/", "p", "l", "a", "i", "n", ";",
           "b", "a", "s", "e", "6", "4", ",", "@", "@", "@">>
    [] OTHER -> <<"/">>

(* const needle = 'base64,' *)
Needle == <<"b", "a", "s", "e", "6", "4", ",">>

(* url.pathname.indexOf(needle): the first 0-based position, or -1 *)
IndexOf(s, needle) ==
  LET found == {i \in 0..(Len(s) - Len(needle)) :
                  SubSeq(s, i + 1, i + Len(needle)) = needle}
  IN  IF found = {} THEN -1
      ELSE CHOOSE i \in found : \A j \in found : i <= j

(* url.pathname.substring(from) *)
Substring(s, from) == SubSeq(s, from + 1, Len(s))

(* atob: ASCII whitespace is removed, then one or two '=' at the end of   *)
(* data whose length is a multiple of 4; it throws InvalidCharacterError  *)
(* when the rest has a length of 1 modulo 4 or a character outside the    *)
(* base64 alphabet, and otherwise returns 6 bits per character            *)
Base64Alphabet ==
  {"A", "B", "C", "D", "E", "F", "G", "H", "I", "J", "K", "L", "M",
   "N", "O", "P", "Q", "R", "S", "T", "U", "V", "W", "X", "Y", "Z",
   "a", "b", "c", "d", "e", "f", "g", "h", "i", "j", "k", "l", "m",
   "n", "o", "p", "q", "r", "s", "t", "u", "v", "w", "x", "y", "z",
   "0", "1", "2", "3", "4", "5", "6", "7", "8", "9", "+", "/"}

AsciiWhitespace == {" ", "\t", "\n", "\f", "\r"}

AtobData(encoded) ==
  LET data == SelectSeq(encoded, LAMBDA c : c \notin AsciiWhitespace)
      n == Len(data)
  IN  IF n % 4 = 0 /\ n >= 2 /\ data[n] = "=" /\ data[n - 1] = "="
        THEN SubSeq(data, 1, n - 2)
      ELSE IF n % 4 = 0 /\ n >= 1 /\ data[n] = "="
        THEN SubSeq(data, 1, n - 1)
      ELSE data

AtobThrows(encoded) ==
  LET data == AtobData(encoded)
  IN  \/ Len(data) % 4 = 1
      \/ \E k \in 1..Len(data) : data[k] \notin Base64Alphabet

(* atob(encoded).length *)
AtobLength(encoded) == (Len(AtobData(encoded)) * 6) \div 8

(* createLanternRequest, the guard that throws 'Trace is too old' *)
TraceIsTooOldLax(request) == request.connectionId = Undefined

TraceIsTooOld(request) ==
  \/ request.connectionId = Undefined
  \/ request.connectionReused = Undefined

(* String(f.scriptId), digit by digit *)
Digits == <<"0", "1", "2", "3", "4", "5", "6", "7", "8", "9">>

RECURSIVE String(_)
String(n) ==
  IF n < 10 THEN <<Digits[n + 1]>>
  ELSE String(n \div 10) \o <<Digits[(n % 10) + 1]>>

(* A frame of request.args.data.stackTrace as a frame of initiator.stack *)
CallFrame(f) ==
  [ scriptId |-> String(f.scriptId),
    url |-> f.url,
    lineNumber |-> f.lineNumber - 1,
    columnNumber |-> f.columnNumber - 1,
    functionName |-> f.functionName ]

NoStack == [defined |-> FALSE, callFrames |-> <<>>]

(* {type: 'other'} *)
DefaultInitiator ==
  [type |-> "other", url |-> Undefined, fetchType |-> Undefined,
   stack |-> NoStack]

(* request.args.data.initiator ?? {type: 'other'}, with the stack trace of *)
(* the event as initiator.stack. An optional field of the raw event is a   *)
(* sequence of no or one value.                                            *)
Initiator(request) ==
  LET initiator == IF request.initiator = <<>> THEN DefaultInitiator
                   ELSE request.initiator[1]
      stackTrace == request.stackTrace
  IN  IF stackTrace # <<>>
        THEN [initiator EXCEPT
               !.stack = [defined |-> TRUE,
                          callFrames |->
                            [k \in 1..Len(stackTrace[1]) |->
                               CallFrame(stackTrace[1][k])]]]
        ELSE initiator

(* The raw event after createLanternRequest has run up to the stack trace: *)
(* initiator is the event's own initiator object when it has one, so       *)
(* initiator.stack is set on the event too                                 *)
RawRequest(request) ==
  IF request.initiator # <<>>
    THEN [request EXCEPT !.initiator = <<Initiator(request)>>]
    ELSE request

(* resourceType, overridden by the initiator's fetchType *)
ResourceType(request) ==
  LET fetchType == IF request.initiator = <<>> THEN Undefined
                   ELSE request.initiator[1].fetchType
  IN  IF fetchType = "xmlhttprequest" THEN XHR
      ELSE IF fetchType = "fetch" THEN Fetch
      ELSE request.resourceType

(* request.args.data.decodedBodyLength ?? 0 *)
DecodedBodyLength(request) ==
  IF request.decodedBodyLength = <<>> THEN 0
  ELSE request.decodedBodyLength[1]

(* The base64 payload of a data: URL whose size the trace does not give;   *)
(* empty when the size is not to be taken from the URL                     *)
Base64Payload(request) ==
  LET pathname == Pathname(request.url)
      index == IndexOf(pathname, Needle)
  IN  IF /\ Protocol(request.url) = "data:"
         /\ DecodedBodyLength(request) = 0
         /\ index # -1
        THEN <<Substring(pathname, index + Len(Needle))>>
        ELSE <<>>

(* atob throws on the payload *)
ResourceSizeThrows(request) ==
  /\ Base64Payload(request) # <<>>
  /\ AtobThrows(Base64Payload(request)[1])

ResourceSize(request) ==
  IF Base64Payload(request) # <<>>
    THEN AtobLength(Base64Payload(request)[1])
    ELSE DecodedBodyLength(request)

(* The object createLanternRequest returns for a request it keeps. Fields   *)
(* that neither the redirect unwrapping, the initiator search nor the sort *)
(* reads or writes (timing, network times, protocol, parsedURL, priority,  *)
(* fromWorker, ...) are left out.                                          *)
LanternRequest(request) ==
  [ rawRequest |-> RawRequest(request),
    requestId |-> <<request.requestId>>,
    url |-> request.url,
    rendererStartTime |-> DividedBy1000(request.ts),
    responseHeadersEndTime |-> DividedBy1000(request.downloadStart),
    transferSize |-> request.encodedDataLength,
    resourceSize |-> ResourceSize(request),
    fromDiskCache |-> request.isDiskCached,
    fromMemoryCache |-> request.isMemoryCached,
    isLinkPreload |-> request.isLinkPreload,
    finished |-> request.finished,
    failed |-> request.failed,
    statusCode |-> request.statusCode,
    initiator |-> Initiator(request),
    resourceType |-> ResourceType(request),
    frameId |-> request.frame,
    redirects |-> [defined |-> FALSE, list |-> <<>>],
    redirectSource |-> Null,
    redirectDestination |-> Null,
    initiatorRequest |-> Null ]

(* createLanternRequest: throws, returns nothing, or returns a record;    *)
(* request is the raw event as the call leaves it                         *)
createLanternRequestStrict(request) ==
  IF TraceIsTooOld(request) \/ ~UrlParses(request.url)
    THEN [kind |-> "throw", value |-> <<>>, request |-> request]
  ELSE IF ResourceSizeThrows(request)
    THEN [kind |-> "throw", value |-> <<>>, request |-> RawRequest(request)]
  ELSE [kind |-> "record", value |-> <<LanternRequest(request)>>,
        request |-> RawRequest(request)]

createLanternRequest(request) ==
  IF TraceIsTooOld(request)
    THEN [kind |-> "throw", value |-> <<>>, request |-> request]
  ELSE IF ~UrlParses(request.url)
    THEN [kind |-> "skip", value |-> <<>>, request |-> request]
  ELSE IF ResourceSizeThrows(request)
    THEN [kind |-> "throw", value |-> <<>>, request |-> RawRequest(request)]
  ELSE [kind |-> "record", value |-> <<LanternRequest(request)>>,
        request |-> RawRequest(request)]

-----------------------------------------------------------------------------
(* Redirect unwrapping: the body of the loop over [...lanternRequests] *)

(* structuredClone(request) with the fields the loop overwrites *)
RedirectedRequest(request, redirect) ==
  [request EXCEPT
    !.rendererStartTime = DividedBy1000(redirect.ts),
    !.responseHeadersEndTime = DividedBy1000(redirect.ts + redirect.dur),
    !.url = redirect.url,
    !.statusCode = RedirectStatusCode,
    !.resourceType = Undefined,
    !.transferSize = RedirectTransferSize]

(* createParsedUrl(redirect.url) throws on a URL that does not parse *)
RedirectThrows(request) ==
  \E k \in 1..Len(request.rawRequest.redirects) :
    ~UrlParses(request.rawRequest.redirects[k].url)

(* requestChain: the clones in redirect order, then the request itself *)
RequestChain(h, r) ==
  LET n == Len(h[r].rawRequest.redirects)
  IN  [k \in 1..n |-> Len(h) + k] \o <<r>>

(* `${requestChain[i - 1].requestId}:redirect` *)
RedirectRequestIdSame(previousId) == previousId

RedirectRequestId(previousId) == Append(previousId, RedirectSuffix)

(* requestId of requestChain[i] after the loop 'for (let i = 1; ...)' *)
RECURSIVE ChainRequestId(_, _)
ChainRequestId(baseId, i) ==
  IF i = 1 THEN baseId ELSE RedirectRequestId(ChainRequestId(baseId, i - 1))

(* request.redirects = requestChain.slice(0, i), set only when i > 0 *)
ChainRedirectsWithSelf(chain, i) ==
  IF i > 1 THEN [defined |-> TRUE, list |-> SubSeq(chain, 1, i)]
           ELSE [defined |-> FALSE, list |-> <<>>]

ChainRedirects(chain, i) ==
  IF i > 1 THEN [defined |-> TRUE, list |-> SubSeq(chain, 1, i - 1)]
           ELSE [defined |-> FALSE, list |-> <<>>]

(* request.redirectSource = requestChain[i - 1], set only when i > 0 *)
ChainRedirectSource(chain, i) == IF i > 1 THEN chain[i - 1] ELSE Null

(* request.redirectDestination = requestChain[i + 1], unless i is last *)
ChainRedirectDestination(chain, i) ==
  IF i # Len(chain) THEN chain[i + 1] ELSE Null

(* The heap after one request with a non-empty redirects list is unwrapped *)
ExpandedHeap(h, r) ==
  LET redirects == h[r].rawRequest.redirects
      chain == RequestChain(h, r)
      cloned == h \o [k \in 1..Len(redirects) |->
                        RedirectedRequest(h[r], redirects[k])]
      position(o) == CHOOSE i \in 1..Len(chain) : chain[i] = o
  IN  [o \in 1..Len(cloned) |->
        IF \E i \in 1..Len(chain) : chain[i] = o
          THEN [cloned[o] EXCEPT
                 !.redirectSource = ChainRedirectSource(chain, position(o)),
                 !.redirects = ChainRedirects(chain, position(o)),
                 !.redirectDestination =
                     ChainRedirectDestination(chain, position(o)),
                 !.requestId =
                     ChainRequestId(cloned[chain[1]].requestId, position(o))]
          ELSE cloned[o]]

(* lanternRequests.push(redirectedRequest), once per redirect *)
ExpandedList(h, list, r) ==
  list \o [k \in 1..Len(h[r].rawRequest.redirects) |-> Len(h) + k]

-----------------------------------------------------------------------------
(* Initiator resolution *)

(* The URLs of the call frames that have one, each once, in frame order *)
RECURSIVE ScriptURLs(_)
ScriptURLs(callFrames) ==
  IF callFrames = <<>> THEN <<>>
  ELSE LET before == ScriptURLs(SubSeq(callFrames, 1, Len(callFrames) - 1))
           url == callFrames[Len(callFrames)].url
       IN  IF url = Undefined \/ \E k \in 1..Len(before) : before[k] = url
             THEN before
             ELSE Append(before, url)

(* PageDependencyGraph.getNetworkInitiators: the URL the initiator names,  *)
(* or for a script initiator without one the URLs of its call stack        *)
getNetworkInitiators(request) ==
  IF request.initiator.url # Undefined THEN <<request.initiator.url>>
  ELSE IF request.initiator.type = "script"
    THEN ScriptURLs(request.initiator.stack.callFrames)
  ELSE <<>>

(* requestsByURL.get(url) || [] : the requests with that URL, in list order *)
RequestsByURL(h, list, url) == SelectSeq(list, LAMBDA o : h[o].url = url)

(* 'The (valid) initiator must come before the initiated request.' *)
IsValidInitiatorAnyState(c, request) ==
  AtMost(c.responseHeadersEndTime, request.rendererStartTime)

IsValidInitiatorAnyTime(c, request) == c.finished /\ ~c.failed

IsValidInitiator(c, request) ==
  /\ AtMost(c.responseHeadersEndTime, request.rendererStartTime)
  /\ c.finished
  /\ ~c.failed

(* A disambiguation stage: keep the preferred candidates if there are any *)
Prefer(candidates, preferred) ==
  IF Len(candidates) > 1 /\ Len(preferred) > 0 THEN preferred ELSE candidates

DropPrefetch(h, candidates) ==
  Prefer(candidates,
         SelectSeq(candidates, LAMBDA c : h[c].resourceType # Other))

SameFrame(h, candidates, request) ==
  Prefer(candidates,
         SelectSeq(candidates, LAMBDA c : h[c].frameId = request.frameId))

ParserDocuments(h, candidates, request) ==
  IF request.initiator.type = "parser"
    THEN Prefer(candidates,
                SelectSeq(candidates, LAMBDA c : h[c].resourceType = Document))
    ELSE candidates

LinkPreloadsSkipped(h, candidates) == candidates

LinkPreloads(h, candidates) ==
  LET linkPreloadCandidates == SelectSeq(candidates, LAMBDA c : h[c].isLinkPreload)
      nonPreloadCandidates == SelectSeq(candidates, LAMBDA c : ~h[c].isLinkPreload)
      allPreloaded ==
        \A k \in 1..Len(nonPreloadCandidates) :
          \/ h[nonPreloadCandidates[k]].fromDiskCache
          \/ h[nonPreloadCandidates[k]].fromMemoryCache
  IN  IF /\ Len(candidates) > 1
         /\ Len(linkPreloadCandidates) > 0
         /\ Len(nonPreloadCandidates) > 0
         /\ allPreloaded
        THEN linkPreloadCandidates
        ELSE candidates

(* 'Only return an initiator if the result is unambiguous.' *)
UnambiguousOrFirst(candidates) ==
  IF Len(candidates) >= 1 THEN candidates[1] ELSE Null

Unambiguous(candidates) ==
  IF Len(candidates) = 1 THEN candidates[1] ELSE Null

(* The candidates left after the filter and the four stages *)
RemainingCandidates(h, list, request) ==
  LET initiators == getNetworkInitiators(request)
      byURL == IF Len(initiators) > 0
                 THEN RequestsByURL(h, list, initiators[1]) ELSE <<>>
      valid == SelectSeq(byURL, LAMBDA c : IsValidInitiator(h[c], request))
  IN  LinkPreloads(h,
        ParserDocuments(h,
          SameFrame(h, DropPrefetch(h, valid), request), request))

chooseInitiatorRequestBySearch(h, list, request) ==
  Unambiguous(RemainingCandidates(h, list, request))

chooseInitiatorRequest(h, list, request) ==
  IF request.redirectSource # Null
    THEN request.redirectSource
    ELSE Unambiguous(RemainingCandidates(h, list, request))

(* linkInitiators: every request of the list gets what the choice returns *)
linkInitiators(h, list) ==
  [o \in 1..Len(h) |->
    IF \E k \in 1..Len(list) : list[k] = o
      THEN LET initiatorRequest == chooseInitiatorRequest(h, list, h[o])
           IN  IF initiatorRequest # Null
                 THEN [h[o] EXCEPT !.initiatorRequest = initiatorRequest]
                 ELSE h[o]
      ELSE h[o]]

-----------------------------------------------------------------------------
(* lanternRequests.sort((a, b) => a.rendererStartTime - b.rendererStartTime) *)
(* Array.prototype.sort is stable.                                           *)

RECURSIVE InsertByTime(_, _, _)
InsertByTime(h, sorted, o) ==
  IF sorted = <<>> THEN <<o>>
  ELSE IF AtMost(h[sorted[Len(sorted)]].rendererStartTime,
                 h[o].rendererStartTime)
    THEN Append(sorted, o)
    ELSE Append(InsertByTime(h, SubSeq(sorted, 1, Len(sorted) - 1), o),
                sorted[Len(sorted)])

RECURSIVE StableSort(_, _)
StableSort(h, list) ==
  IF list = <<>> THEN <<>>
  ELSE InsertByTime(h, StableSort(h, SubSeq(list, 1, Len(list) - 1)),
                    list[Len(list)])

SortByRendererStartTimeSkipped(h, list) == list

SortByRendererStartTime(h, list) == StableSort(h, list)

-----------------------------------------------------------------------------
(* The inputs: raw SyntheticNetworkRequest events *)

NoInitiator == <<DefaultInitiator>>
InitiatedByA == <<[DefaultInitiator EXCEPT !.url = UrlA]>>
InitiatedByScript == <<[DefaultInitiator EXCEPT !.type = "script"]>>

(* A stack trace with one frame, of a script at UrlA *)
StackTraceFromA ==
  <<<<[scriptId |-> 12, url |-> UrlA, lineNumber |-> 10, columnNumber |-> 5,
       functionName |-> "load"]>>>>

RawEvent(url, ts, downloadStart, finished, failed, initiator, redirects) ==
  [ requestId |-> RequestIds[1],
    connectionId |-> "42", connectionReused |-> "false",
    url |-> url, ts |-> ts, downloadStart |-> downloadStart,
    finished |-> finished, failed |-> failed, statusCode |-> 200,
    initiator |-> initiator, resourceType |-> Script, frame |-> "F1",
    isLinkPreload |-> FALSE, isDiskCached |-> FALSE, isMemoryCached |-> FALSE,
    encodedDataLength |-> 1000, decodedBodyLength |-> <<3000>>,
    stackTrace |-> <<>>, redirects |-> redirects ]

(* A redirects list: n hops to one URL, each taking 0.7 ms, one after the  *)
(* other from time 0                                                       *)
Redirects(n, url) ==
  [k \in 1..n |-> [url |-> url, ts |-> (k - 1) * 700, dur |-> 700]]

(* Requests that were not redirected and have completed, starting at 1 ms *)
(* or 1.5 ms: the response headers arrive at once or after 0.4 ms          *)
CompletedEvents ==
  {RawEvent(UrlA, ts, ts + wait, TRUE, FALSE, initiator, <<>>) :
     ts \in {1000, 1500}, wait \in {0, 400},
     initiator \in {NoInitiator, InitiatedByA}}

(* Requests that have failed, and requests that have not finished *)
IncompleteEvents ==
  {RawEvent(UrlA, 1000, 1400, finished, finished, initiator, <<>>) :
     finished \in BOOLEAN, initiator \in {NoInitiator, InitiatedByA}}

PlainEvents == CompletedEvents \cup IncompleteEvents

(* Requests reached through 1..MaxRedirects redirects, starting at 1.5 ms *)
RedirectedEvents ==
  {RawEvent(UrlA, 1500, 2200, TRUE, c[1], c[2], Redirects(n, url)) :
     c \in {<<FALSE, NoInitiator>>, <<FALSE, InitiatedByA>>,
             <<TRUE, InitiatedByA>>},
     n \in 1..MaxRedirects, url \in URLs}

(* Requests with a stack trace: of a script initiator that names no URL,   *)
(* and of an event without initiator                                       *)
StackTraceEvents ==
  {[RawEvent(UrlB, 1500, 1900, TRUE, FALSE, initiator, <<>>) EXCEPT
      !.stackTrace = StackTraceFromA] :
     initiator \in {InitiatedByScript, <<>>}}

DataUrlEvent(url, decodedBodyLength) ==
  [RawEvent(url, 1000, 1400, TRUE, FALSE, NoInitiator, <<>>) EXCEPT
     !.decodedBodyLength = decodedBodyLength]

(* Requests of data: URLs: a base64 payload whose size the trace does not  *)
(* give, and a payload that is not base64 with a size of 0 and of 7        *)
DataUrlEvents ==
  {DataUrlEvent(DataBase64, <<>>),
   DataUrlEvent(DataMalformed, <<0>>),
   DataUrlEvent(DataMalformed, <<7>>)}

(* Requests whose URL does not parse *)
UnparseableEvents ==
  {RawEvent(BadUrl, 1000, 1400, TRUE, FALSE, NoInitiator, rs) :
     rs \in {<<>>, Redirects(1, UrlA)}}

(* Requests with a redirect whose URL does not parse *)
UnparseableRedirectEvents ==
  {RawEvent(UrlA, 1500, 2200, TRUE, FALSE, NoInitiator, Redirects(1, BadUrl))}

(* Events of a trace without connectionId or without connectionReused *)
OldTraceEvents ==
  {[RawEvent(UrlA, 1000, 1400, TRUE, FALSE, NoInitiator, <<>>) EXCEPT
      !.connectionId = Undefined],
   [RawEvent(UrlA, 1000, 1400, TRUE, FALSE, NoInitiator, <<>>) EXCEPT
      !.connectionReused = Undefined],
   [RawEvent(BadUrl, 1000, 1400, TRUE, FALSE, NoInitiator, <<>>) EXCEPT
      !.connectionReused = Undefined]}

RawEvents ==
  PlainEvents \cup RedirectedEvents \cup StackTraceEvents \cup DataUrlEvents
    \cup UnparseableEvents \cup UnparseableRedirectEvents \cup OldTraceEvents

(* byTime is ordered by ts, and every event has its own requestId *)
IsByTime(events) ==
  \A k \in 1..(Len(events) - 1) : events[k].ts <= events[k + 1].ts

WithRequestIds(events) ==
  [k \in 1..Len(events) |-> [events[k] EXCEPT !.requestId = RequestIds[k]]]

Inputs ==
  {WithRequestIds(events) :
     events \in {e \in UNION {[1..n -> RawEvents] : n \in 0..MaxRequests} :
                   IsByTime(e)}}

-----------------------------------------------------------------------------
(* createNetworkRequests as a state machine *)

NoResult == [returned |-> FALSE, list |-> <<>>]

(* The loop over [...lanternRequests] visits the requests built so far;    *)
(* with none built it has no iteration and linkInitiators is next          *)
AfterBuild(list) == IF Len(list) = 0 THEN "link" ELSE "expand"

Init ==
  /\ byTime \in Inputs
  /\ heap = <<>>
  /\ lanternRequests = <<>>
  /\ idx = 1
  /\ pc = IF Len(byTime) = 0 THEN "link" ELSE "build"
  /\ result = NoResult

(* One iteration of the loop over byTime *)
BuildStep(list) ==
  IF idx < Len(byTime)
    THEN pc' = "build" /\ idx' = idx + 1
    ELSE pc' = AfterBuild(list) /\ idx' = 1

CreateRequestThrows ==
  /\ pc = "build"
  /\ createLanternRequest(byTime[idx]).kind = "throw"
  /\ byTime' = [byTime EXCEPT ![idx] = createLanternRequest(byTime[idx]).request]
  /\ pc' = "error"
  /\ UNCHANGED <<heap, lanternRequests, idx, result>>

CreateRequestSkips ==
  /\ pc = "build"
  /\ createLanternRequest(byTime[idx]).kind = "skip"
  /\ BuildStep(lanternRequests)
  /\ UNCHANGED <<byTime, heap, lanternRequests, result>>

CreateRequestPushes ==
  /\ pc = "build"
  /\ createLanternRequest(byTime[idx]).kind = "record"
  /\ byTime' = [byTime EXCEPT ![idx] = createLanternRequest(byTime[idx]).request]
  /\ heap' = heap \o createLanternRequest(byTime[idx]).value
  /\ lanternRequests' = Append(lanternRequests, Len(heap) + 1)
  /\ BuildStep(lanternRequests')
  /\ UNCHANGED result

(* One iteration of the loop over the copy of lanternRequests; the copy is *)
(* the requests built from byTime, which are the first objects of the heap *)
Built == Len(SelectSeq(byTime, LAMBDA e : createLanternRequest(e).kind = "record"))

ExpandStep ==
  IF idx < Built
    THEN pc' = "expand" /\ idx' = idx + 1
    ELSE pc' = "link" /\ idx' = 1

NoRedirects ==
  /\ pc = "expand"
  /\ Len(heap[idx].rawRequest.redirects) = 0
  /\ ExpandStep
  /\ UNCHANGED <<byTime, heap, lanternRequests, result>>

UnwrapRedirectsThrows ==
  /\ pc = "expand"
  /\ Len(heap[idx].rawRequest.redirects) > 0
  /\ RedirectThrows(heap[idx])
  /\ pc' = "error"
  /\ UNCHANGED <<byTime, heap, lanternRequests, idx, result>>

UnwrapRedirects ==
  /\ pc = "expand"
  /\ Len(heap[idx].rawRequest.redirects) > 0
  /\ ~RedirectThrows(heap[idx])
  /\ heap' = ExpandedHeap(heap, idx)
  /\ lanternRequests' = ExpandedList(heap, lanternRequests, idx)
  /\ ExpandStep
  /\ UNCHANGED <<byTime, result>>

LinkInitiators ==
  /\ pc = "link"
  /\ heap' = linkInitiators(heap, lanternRequests)
  /\ pc' = "sort"
  /\ UNCHANGED <<byTime, lanternRequests, idx, result>>

SortAndReturn ==
  /\ pc = "sort"
  /\ lanternRequests' = SortByRendererStartTime(heap, lanternRequests)
  /\ result' = [returned |-> TRUE, list |-> lanternRequests']
  /\ pc' = "done"
  /\ UNCHANGED <<byTime, heap, idx>>

Next ==
  \/ CreateRequestThrows
  \/ CreateRequestSkips
  \/ CreateRequestPushes
  \/ NoRedirects
  \/ UnwrapRedirectsThrows
  \/ UnwrapRedirects
  \/ LinkInitiators
  \/ SortAndReturn

Spec == Init /\ [][Next]_vars

-----------------------------------------------------------------------------
(* createNetworkRequests as a function of byTime: what a call returns *)

Thrown == [returned |-> FALSE, records |-> <<>>]

(* The loop over byTime *)
RECURSIVE BuildAll(_)
BuildAll(events) ==
  IF events = <<>> THEN [thrown |-> FALSE, heap |-> <<>>, events |-> <<>>]
  ELSE LET before == BuildAll(SubSeq(events, 1, Len(events) - 1))
           made == createLanternRequest(events[Len(events)])
       IN  IF before.thrown \/ made.kind = "throw"
             THEN [thrown |-> TRUE, heap |-> <<>>, events |-> <<>>]
             ELSE [thrown |-> FALSE, heap |-> before.heap \o made.value,
                   events |-> Append(before.events, made.request)]

(* The loop over the copy of lanternRequests, from its i-th entry on *)
RECURSIVE ExpandAll(_, _, _, _)
ExpandAll(h, list, i, built) ==
  IF i > built THEN [thrown |-> FALSE, heap |-> h, list |-> list]
  ELSE IF Len(h[i].rawRequest.redirects) = 0
    THEN ExpandAll(h, list, i + 1, built)
  ELSE IF RedirectThrows(h[i])
    THEN [thrown |-> TRUE, heap |-> <<>>, list |-> <<>>]
  ELSE ExpandAll(ExpandedHeap(h, i), ExpandedList(h, list, i), i + 1, built)

createNetworkRequests(events) ==
  LET built == BuildAll(events)
      expanded == ExpandAll(built.heap, [k \in 1..Len(built.heap) |-> k], 1,
                            Len(built.heap))
      linked == linkInitiators(expanded.heap, expanded.list)
      sorted == SortByRendererStartTime(linked, expanded.list)
  IN  IF built.thrown THEN Thrown
      ELSE IF expanded.thrown THEN Thrown
      ELSE [returned |-> TRUE, records |-> [k \in 1..Len(sorted) |-> linked[sorted[k]]]]

-----------------------------------------------------------------------------
(* Initiator resolution on its own: the state when linkInitiators is       *)
(* called, for traces without redirects whose requests differ in what the  *)
(* disambiguation stages look at                                           *)

CandidateEvent(url, downloadStart, finished, failed, type, frame, preload, cache) ==
  [RawEvent(url, 1000, downloadStart, finished, failed, NoInitiator, <<>>) EXCEPT
     !.resourceType = type, !.frame = frame, !.isLinkPreload = preload,
     !.isDiskCached = (cache = "disk"), !.isMemoryCached = (cache = "memory")]

(* Same-URL requests that end before the initiated request starts *)
ValidCandidateEvents ==
  {CandidateEvent(UrlA, 2500, TRUE, FALSE, type, frame, load[1], load[2]) :
     type \in {Other, Document, Script}, frame \in {"F1", "F2"},
     load \in {<<TRUE, "network">>, <<FALSE, "network">>, <<FALSE, "disk">>}}
  \cup
  {CandidateEvent(UrlA, 2500, TRUE, FALSE, Script, frame, FALSE, "memory") :
     frame \in {"F1", "F2"}}

(* Requests the trace types as Other that were made by fetch or by an      *)
(* XMLHttpRequest                                                          *)
FetchedCandidateEvents ==
  {[CandidateEvent(UrlA, 2500, TRUE, FALSE, Other, "F1", FALSE, "network")
      EXCEPT !.initiator = <<[DefaultInitiator EXCEPT !.fetchType = fetchType]>>] :
     fetchType \in {"fetch", "xmlhttprequest"}}

(* Requests that cannot be the initiator: late by 0.1 ms, failed,          *)
(* unfinished, or of another URL                                           *)
InvalidCandidateEvents ==
  {CandidateEvent(UrlA, 2700, TRUE, FALSE, Document, "F1", TRUE, "network"),
   CandidateEvent(UrlA, 2500, TRUE, TRUE, Document, "F1", TRUE, "network"),
   CandidateEvent(UrlA, 2500, FALSE, FALSE, Document, "F1", TRUE, "network"),
   CandidateEvent(UrlB, 2500, TRUE, FALSE, Document, "F1", TRUE, "network")}

CandidateEvents ==
  ValidCandidateEvents \cup FetchedCandidateEvents \cup InvalidCandidateEvents

(* The initiated request: started at 2.6 ms in frame F1; its initiator     *)
(* names UrlA, or nothing, or is a script whose stack trace names UrlA     *)
InitiatedEvents ==
  {[RawEvent(UrlB, 2600, 3000, TRUE, FALSE,
             <<[DefaultInitiator EXCEPT !.type = type, !.url = UrlA]>>, <<>>)
      EXCEPT !.resourceType = Script] :
     type \in {"parser", "script"}}
  \cup
  {[RawEvent(UrlB, 2600, 3000, TRUE, FALSE, InitiatedByScript, <<>>)
      EXCEPT !.resourceType = Script]}
  \cup
  {[RawEvent(UrlB, 2600, 3000, TRUE, FALSE, InitiatedByScript, <<>>)
      EXCEPT !.resourceType = Script, !.stackTrace = StackTraceFromA]}

ChooseInputs ==
  {WithRequestIds(candidates \o <<initiated>>) :
     candidates \in UNION {[1..n -> CandidateEvents] : n \in 0..MaxCandidates},
     initiated \in InitiatedEvents}

InitChoose ==
  /\ \E events \in ChooseInputs : byTime = BuildAll(events).events
  /\ heap = BuildAll(byTime).heap
  /\ lanternRequests = [k \in 1..Len(byTime) |-> k]
  /\ idx = 1
  /\ pc = "link"
  /\ result = NoResult

NextChoose == LinkInitiators \/ SortAndReturn

SpecChoose == InitChoose /\ [][NextChoose]_vars

-----------------------------------------------------------------------------
(* Vocabulary of the properties *)

Returned == pc = "done" /\ result.returned

(* The raw events createLanternRequest keeps *)
HasConnection(e) == e.connectionId # Undefined /\ e.connectionReused # Undefined
Kept(e) == HasConnection(e) /\ e.url # "not a url"

(* A time of a record, in microseconds *)
InMicros(time) == time.whole * 1000 + time.thousandths

(* The objects made by createLanternRequest are the first KeptCount objects *)
KeptCount == Cardinality({i \in 1..Len(byTime) : Kept(byTime[i])})

(* The returned records made from raw event e, in list order *)
RecordsOf(e) == SelectSeq(result.list, LAMBDA o : heap[o].rawRequest = e)
MembersOf(e) == {RecordsOf(e)[k] : k \in 1..Len(RecordsOf(e))}

(* id followed by j copies of ':redirect' *)
Suffixed(id, j) == <<id>> \o [k \in 1..j |-> ":redirect"]

(* Record o is what event e's chain has at position j: redirect j + 1 of   *)
(* the list, or for j = n the request that was observed                    *)
AtPosition(o, e, j) ==
  IF j < Len(e.redirects)
    THEN /\ heap[o].url = e.redirects[j + 1].url
         /\ InMicros(heap[o].rendererStartTime) = e.redirects[j + 1].ts
         /\ heap[o].statusCode = 302
    ELSE /\ heap[o].url = e.url
         /\ InMicros(heap[o].rendererStartTime) = e.ts
         /\ heap[o].statusCode = e.statusCode

(* C1: every kept raw request with n redirects has exactly n + 1 records   *)
(* in the returned list, and the record at chain position k (0 = first     *)
(* redirect, n = the observed request) has the raw requestId followed by   *)
(* exactly k copies of ':redirect'; with n = 0 the raw requestId is kept.  *)
C1_ChainRequestIds ==
  Returned =>
    \A i \in 1..Len(byTime) :
      Kept(byTime[i]) =>
        LET e == byTime[i]
            n == Len(e.redirects)
        IN  /\ Len(RecordsOf(e)) = n + 1
            /\ \A k \in 0..n :
                 \E o \in MembersOf(e) :
                   /\ AtPosition(o, e, k)
                   /\ heap[o].requestId = Suffixed(e.requestId, k)

C1_Witness ==
  /\ Returned
  /\ \E i, j \in 1..Len(byTime) :
       /\ Kept(byTime[i]) /\ Len(byTime[i].redirects) = 2
       /\ Kept(byTime[j]) /\ Len(byTime[j].redirects) = 0
       /\ \E o \in MembersOf(byTime[i]) :
            heap[o].requestId = Suffixed(byTime[i].requestId, 2)
       /\ \E o \in MembersOf(byTime[j]) :
            heap[o].requestId = <<byTime[j].requestId>>

-----------------------------------------------------------------------------
(* Redirect chains in the returned list *)

(* The walk from record o along redirectDestination, at most fuel records *)
RECURSIVE HopsFrom(_, _)
HopsFrom(o, fuel) ==
  IF o = Null \/ fuel = 0 THEN <<>>
  ELSE <<o>> \o HopsFrom(heap[o].redirectDestination, fuel - 1)

(* The links of event e's records form one simple path `path`, from the    *)
(* one record without redirectSource to the one without                    *)
(* redirectDestination, which is the object made from the observed request *)
IsSimplePath(e, path) ==
  LET members == MembersOf(e)
  IN  /\ Len(path) = Cardinality(members)
      /\ {path[k] : k \in 1..Len(path)} = members
      /\ Cardinality({o \in members : heap[o].redirectSource = Null}) = 1
      /\ Cardinality({o \in members : heap[o].redirectDestination = Null}) = 1
      /\ heap[path[1]].redirectSource = Null
      /\ heap[path[Len(path)]].redirectDestination = Null
      /\ path[Len(path)] <= KeptCount
      /\ \A a, b \in members :
           heap[a].redirectDestination = b <=> heap[b].redirectSource = a
      /\ \A k \in 1..Len(path) : AtPosition(path[k], e, k - 1)

(* The redirected requests of the input, and the path of each *)
RedirectedInputs ==
  {i \in 1..Len(byTime) : Kept(byTime[i]) /\ Len(byTime[i].redirects) > 0}

PathOf(e) ==
  LET heads == {o \in MembersOf(e) : heap[o].redirectSource = Null}
  IN  IF heads = {} THEN <<>>
      ELSE HopsFrom(CHOOSE o \in heads : TRUE, Len(e.redirects) + 1)

(* C2, as claimed: the links of every redirect chain form one simple path  *)
(* and the member at position k, the head (k = 0) included, has a          *)
(* redirects sequence of exactly k entries, the members before it.         *)
C2_RedirectsOnEveryMember ==
  Returned =>
    \A i \in RedirectedInputs :
      LET path == PathOf(byTime[i])
      IN  /\ IsSimplePath(byTime[i], path)
          /\ \A k \in 1..Len(path) :
               /\ heap[path[k]].redirects.defined
               /\ heap[path[k]].redirects.list = SubSeq(path, 1, k - 1)

(* C2, amended: the links of every redirect chain form one simple path;    *)
(* the member at position k >= 1 has a redirects sequence of exactly k     *)
(* entries, the members before it in hop order; the head has no redirects  *)
(* sequence at all (the field is left unset).                              *)
C2_ChainLinks ==
  Returned =>
    \A i \in RedirectedInputs :
      LET path == PathOf(byTime[i])
      IN  /\ IsSimplePath(byTime[i], path)
          /\ ~heap[path[1]].redirects.defined
          /\ \A k \in 2..Len(path) :
               /\ heap[path[k]].redirects.defined
               /\ Len(heap[path[k]].redirects.list) = k - 1
               /\ heap[path[k]].redirects.list = SubSeq(path, 1, k - 1)

C2_Witness ==
  /\ Returned
  /\ Cardinality(RedirectedInputs) = 2
  /\ \E i \in RedirectedInputs :
       /\ Len(PathOf(byTime[i])) = 3
       /\ Len(heap[PathOf(byTime[i])[3]].redirects.list) = 2

(* C3: a returned list is sorted non-decreasing by rendererStartTime and   *)
(* holds every record made, the records of the redirects included.         *)
C3_SortedByRendererStartTime ==
  Returned =>
    /\ \A k \in 1..(Len(result.list) - 1) :
         InMicros(heap[result.list[k]].rendererStartTime)
           <= InMicros(heap[result.list[k + 1]].rendererStartTime)
    /\ \A o \in 1..Len(heap) :
         Len(SelectSeq(result.list, LAMBDA x : x = o)) = 1

(* a record made for a redirect is returned before a record made earlier *)
C3_Witness ==
  /\ Returned
  /\ \E j, k \in 1..Len(result.list) :
       /\ j < k
       /\ result.list[j] > KeptCount
       /\ result.list[k] <= KeptCount
       /\ result.list[j] > result.list[k]

-----------------------------------------------------------------------------
(* Errors *)

OldEvents == {i \in 1..Len(byTime) : ~HasConnection(byTime[i])}
UnparseableInputs ==
  {i \in 1..Len(byTime) : byTime[i].url = "not a url"}

(* C6: when any raw event lacks connectionId or connectionReused, wherever *)
(* it stands and whatever the others are, the call never gets past the     *)
(* loop over byTime, returns no list, and ends in the error.               *)
C6_OldTraceFails ==
  OldEvents # {} =>
    /\ ~result.returned
    /\ \/ pc = "error"
       \/ pc = "build" /\ \E i \in OldEvents : i >= idx

(* the error is thrown at an event that is not the first and that has a    *)
(* connectionId but no connectionReused, after a request was kept          *)
C6_Witness ==
  /\ pc = "error"
  /\ Len(heap) = 1
  /\ \E i \in OldEvents :
       /\ i = 2
       /\ byTime[i].connectionId # Undefined
       /\ byTime[i].connectionReused = Undefined

(* What the call has produced when it is over *)
Over == pc \in {"done", "error"}
Outcome ==
  IF pc = "done"
    THEN [returned |-> TRUE,
          records |-> [k \in 1..Len(result.list) |-> heap[result.list[k]]]]
    ELSE [returned |-> FALSE, records |-> <<>>]

Without(events, i) ==
  SubSeq(events, 1, i - 1) \o SubSeq(events, i + 1, Len(events))

(* C7, as claimed: an input with a request whose URL does not parse never  *)
(* aborts; the call still returns a list.                                  *)
C7_UnparseableNeverAborts ==
  UnparseableInputs # {} => pc # "error"

(* C7, amended: a request whose URL does not parse and that has            *)
(* connectionId and connectionReused is dropped: the call ends as it ends  *)
(* on the input without that request (a list exactly when that returns a   *)
(* list, and then the same records), and no returned record is made from   *)
(* the request.                                                            *)
C7_UnparseableDropped ==
  Over =>
    \A i \in UnparseableInputs :
      HasConnection(byTime[i]) =>
        /\ Outcome = createNetworkRequests(Without(byTime, i))
        /\ \A k \in 1..Len(Outcome.records) :
             Outcome.records[k].rawRequest # byTime[i]

(* a list is returned for an input with an unparseable request and a       *)
(* redirected one                                                          *)
C7_Witness ==
  /\ Returned
  /\ \E i \in UnparseableInputs : HasConnection(byTime[i])
  /\ Len(result.list) >= 2

-----------------------------------------------------------------------------
(* Initiators *)

Linked == pc \in {"sort", "done"}

(* C9: once the initiators are linked, every member of a redirect chain    *)
(* but its head has the preceding hop as initiatorRequest, which is its    *)
(* redirectSource, whatever its initiator metadata, the same-URL           *)
(* candidates and the timing and completion of that hop.                   *)
C9_RedirectSourceIsInitiator ==
  Linked =>
    \A i \in 1..Len(byTime) :
      Kept(byTime[i]) =>
        \A o \in 1..Len(heap) :
          \A k \in 1..Len(byTime[i].redirects) :
            (/\ heap[o].rawRequest = byTime[i]
             /\ heap[o].requestId = Suffixed(byTime[i].requestId, k))
            => /\ heap[o].initiatorRequest # Null
               /\ heap[o].initiatorRequest = heap[o].redirectSource
               /\ heap[heap[o].initiatorRequest].rawRequest = byTime[i]
               /\ heap[heap[o].initiatorRequest].requestId
                    = Suffixed(byTime[i].requestId, k - 1)

(* the hop before has failed and ends after the member starts, while       *)
(* another request of the URL the member's initiator names qualifies       *)
C9_Witness ==
  /\ Returned
  /\ \E o, c \in 1..Len(heap) :
       /\ heap[o].redirectSource # Null
       /\ heap[o].initiatorRequest = heap[o].redirectSource
       /\ heap[heap[o].redirectSource].failed
       /\ c # heap[o].redirectSource
       /\ heap[o].initiator.url = heap[c].url
       /\ InMicros(heap[c].responseHeadersEndTime)
            <= InMicros(heap[o].rendererStartTime)
       /\ heap[c].finished /\ ~heap[c].failed
       /\ heap[c].rawRequest # heap[o].rawRequest


(* The initiator of o ended its response headers by the time o started,    *)
(* is finished and has not failed                                          *)
CameBefore(o) ==
  LET initiator == heap[heap[o].initiatorRequest]
  IN  /\ InMicros(initiator.responseHeadersEndTime)
           <= InMicros(heap[o].rendererStartTime)
      /\ initiator.finished
      /\ ~initiator.failed

(* C4, as claimed: every returned record with an initiatorRequest, the     *)
(* members of redirect chains included, has an initiator that came before  *)
(* it, finished and not failed.                                            *)
C4_EveryInitiatorCameBefore ==
  Returned =>
    \A o \in 1..Len(heap) :
      heap[o].initiatorRequest # Null => CameBefore(o)

(* C4, amended: every returned record with an initiatorRequest that is not *)
(* a non-head member of a redirect chain (it has no redirectSource) has an *)
(* initiator that came before it, finished and not failed.                 *)
C4_SearchedInitiatorCameBefore ==
  Returned =>
    \A o \in 1..Len(heap) :
      (heap[o].initiatorRequest # Null /\ heap[o].redirectSource = Null)
        => CameBefore(o)

(* an initiator was found by the search although other requests of the     *)
(* same URL had failed, were unfinished or ended too late                  *)
C4_Witness ==
  /\ Returned
  /\ \E o, a, b \in 1..Len(heap) :
       /\ heap[o].redirectSource = Null
       /\ heap[o].initiatorRequest \notin {Null, a, b}
       /\ heap[a].url = heap[o].initiator.url
       /\ heap[b].url = heap[o].initiator.url
       /\ heap[a].failed \/ ~heap[a].finished
       /\ InMicros(heap[b].responseHeadersEndTime)
            > InMicros(heap[o].rendererStartTime)

(* The records met from o along initiatorRequest, at most fuel of them *)
RECURSIVE InitiatorsFrom(_, _)
InitiatorsFrom(o, fuel) ==
  IF heap[o].initiatorRequest = Null \/ fuel = 0 THEN {}
  ELSE {heap[o].initiatorRequest}
         \cup InitiatorsFrom(heap[o].initiatorRequest, fuel - 1)

Acyclic == \A o \in 1..Len(heap) : o \notin InitiatorsFrom(o, Len(heap))

(* Every record's response headers end after it starts, and every redirect *)
(* ends by the time the next member of its chain starts                    *)
TimesAreCausal ==
  \A o \in 1..Len(heap) :
    /\ InMicros(heap[o].rendererStartTime)
         < InMicros(heap[o].responseHeadersEndTime)
    /\ heap[o].redirectSource # Null =>
         InMicros(heap[heap[o].redirectSource].responseHeadersEndTime)
           <= InMicros(heap[o].rendererStartTime)

(* C10, as claimed: no returned record is its own initiatorRequest, and    *)
(* the initiatorRequest links never lead from a record back to it.         *)
C10_InitiatorsAcyclic == Returned => Acyclic

(* C10, amended: when every returned record's responseHeadersEndTime is    *)
(* later than its rendererStartTime and every redirect's                   *)
(* responseHeadersEndTime is no later than the rendererStartTime of the    *)
(* next member of its chain, no record is its own initiatorRequest and the *)
(* initiatorRequest links never lead from a record back to it.             *)
C10_CausalInitiatorsAcyclic == (Returned /\ TimesAreCausal) => Acyclic

(* a redirected request whose head found its initiator by the search *)
C10_Witness ==
  /\ Returned
  /\ TimesAreCausal
  /\ \E o \in 1..Len(heap) :
       /\ heap[o].redirectSource # Null
       /\ Cardinality(InitiatorsFrom(o, Len(heap))) >= 2
       /\ heap[o].initiator.url = heap[o].url

-----------------------------------------------------------------------------
(* The search for an initiator, stated on sets of records *)

(* The URL o's initiator names: its url, or for a script initiator        *)
(* without one the url of the first frame of its call stack that has one   *)
NamedBy(o) ==
  LET initiator == heap[o].initiator
      frames == initiator.stack.callFrames
      withUrl == {k \in 1..Len(frames) : frames[k].url # Undefined}
  IN  IF initiator.url # Undefined THEN {initiator.url}
      ELSE IF initiator.type = "script" /\ withUrl # {}
        THEN {frames[CHOOSE k \in withUrl : \A j \in withUrl : k <= j].url}
      ELSE {}

(* The requests of the URL o's initiator names that came before o *)
Qualifying(o) ==
  {c \in 1..Len(heap) :
     /\ heap[c].url \in NamedBy(o)
     /\ InMicros(heap[c].responseHeadersEndTime)
          <= InMicros(heap[o].rendererStartTime)
     /\ heap[c].finished
     /\ ~heap[c].failed}

(* A tie-break: while more than one candidate remains, keep the preferred  *)
(* ones unless there are none                                              *)
TieBreak(candidates, preferred) ==
  IF Cardinality(candidates) > 1 /\ candidates \cap preferred # {}
    THEN candidates \cap preferred
    ELSE candidates

NotPrefetch == {c \in 1..Len(heap) : heap[c].resourceType # "Other"}
InFrameOf(o) == {c \in 1..Len(heap) : heap[c].frameId = heap[o].frameId}
Documents(o) ==
  IF heap[o].initiator.type = "parser"
    THEN {c \in 1..Len(heap) : heap[c].resourceType = "Document"}
    ELSE 1..Len(heap)
Preloads == {c \in 1..Len(heap) : heap[c].isLinkPreload}
CacheHits == {c \in 1..Len(heap) : heap[c].fromDiskCache \/ heap[c].fromMemoryCache}

AfterEarlierTieBreaks(o) ==
  TieBreak(TieBreak(TieBreak(Qualifying(o), NotPrefetch), InFrameOf(o)),
           Documents(o))

Remaining(o) ==
  LET candidates == AfterEarlierTieBreaks(o)
  IN  IF /\ candidates \ Preloads # {}
         /\ candidates \ Preloads \subseteq CacheHits
        THEN TieBreak(candidates, Preloads)
        ELSE candidates

(* Candidates a and b differ in nothing a tie-break of o's search looks at *)
Alike(a, b) ==
  /\ heap[a].resourceType = heap[b].resourceType
  /\ heap[a].frameId = heap[b].frameId
  /\ heap[a].isLinkPreload = heap[b].isLinkPreload
  /\ heap[a].fromDiskCache = heap[b].fromDiskCache
  /\ heap[a].fromMemoryCache = heap[b].fromMemoryCache

(* C5: a request that is not a non-head member of a redirect chain gets an *)
(* initiatorRequest only when exactly one same-URL candidate remains after *)
(* the completion/timing filter and the tie-breaks, and then it is that    *)
(* candidate; with two or more remaining, or none, it stays unset, and a   *)
(* candidate is never picked from among candidates that are alike.         *)
C5_OnlyUnambiguous ==
  Linked =>
    \A o \in 1..Len(heap) :
      heap[o].redirectSource = Null =>
        /\ Cardinality(Remaining(o)) = 1
             => heap[o].initiatorRequest \in Remaining(o)
        /\ Cardinality(Remaining(o)) # 1 => heap[o].initiatorRequest = Null
        /\ heap[o].initiatorRequest # Null =>
             /\ heap[o].initiatorRequest \in Qualifying(o)
             /\ \A c \in Qualifying(o) :
                  Alike(c, heap[o].initiatorRequest)
                    => c = heap[o].initiatorRequest

(* two candidates that are not alike remain, and the initiator stays unset *)
C5_Witness ==
  /\ Returned
  /\ \E o \in 1..Len(heap) :
       /\ heap[o].redirectSource = Null
       /\ Cardinality(Remaining(o)) = 2
       /\ \E a, b \in Remaining(o) : ~Alike(a, b)
       /\ heap[o].initiatorRequest = Null

(* The qualifying candidates of o are one link preload and one request     *)
(* that is no link preload and was served from the disk or memory cache    *)
PreloadAndCacheHit(o, p, n) ==
  /\ Qualifying(o) = {p, n}
  /\ p # n
  /\ heap[p].isLinkPreload
  /\ ~heap[n].isLinkPreload
  /\ heap[n].fromDiskCache \/ heap[n].fromMemoryCache

(* C8, as claimed: when the qualifying same-URL candidates are one link    *)
(* preload and one cache-hit non-preload, the initiator is the preload.    *)
C8_PreloadAlwaysChosen ==
  Linked =>
    \A o, p, n \in 1..Len(heap) :
      PreloadAndCacheHit(o, p, n) => heap[o].initiatorRequest = p

(* No earlier tie-break of o's search tells p from n *)
NotToldApart(o, p, n) ==
  /\ (heap[p].resourceType = "Other") = (heap[n].resourceType = "Other")
  /\ (heap[p].frameId = heap[o].frameId) = (heap[n].frameId = heap[o].frameId)
  /\ heap[o].initiator.type = "parser" =>
       (heap[p].resourceType = "Document") = (heap[n].resourceType = "Document")

(* C8, amended: for a request that is not a non-head member of a redirect  *)
(* chain, when the qualifying same-URL candidates are one link preload and *)
(* one cache-hit non-preload, and no earlier tie-break tells them apart    *)
(* (both or neither are of type Other, both or neither are in the          *)
(* request's frame and, for a parser-initiated request, both or neither    *)
(* are Documents), the initiator is the preload.                           *)
C8_PreloadChosenWhenNotToldApart ==
  Linked =>
    \A o, p, n \in 1..Len(heap) :
      (/\ heap[o].redirectSource = Null
       /\ PreloadAndCacheHit(o, p, n)
       /\ NotToldApart(o, p, n))
      => heap[o].initiatorRequest = p

(* the preload is chosen over a memory-cache hit listed before it *)
C8_Witness ==
  /\ Returned
  /\ \E o, p, n \in 1..Len(heap) :
       /\ PreloadAndCacheHit(o, p, n)
       /\ NotToldApart(o, p, n)
       /\ heap[n].fromMemoryCache
       /\ n < p
       /\ heap[o].initiatorRequest = p

====
